---- MODULE Spec2Model ----
(***************************************************************************)
(* Model of src/market_analysis.py: the daily JPX400 fair-value batch job. *)
(*                                                                         *)
(* The main program loads its configuration, checks the calendar, fetches  *)
(* the target list, fans analyze_stock out over a thread pool, collects    *)
(* the results, prints a summary, sorts the successes by upside and        *)
(* publishes the rendered report.                                          *)
(*                                                                         *)
(* Numbers: the program computes with Python floats.  The model computes   *)
(* with integers.  Every branch the program takes on a float comparison is *)
(* decided exactly here (see UpsideAbove300); the stored values `target`   *)
(* and `diff` are the floor of the real value.  The quotients price/pe and *)
(* price/pbr are exact on the input domains below (every price is a       *)
(* multiple of the divisors used).                                         *)
(***************************************************************************)
EXTENDS Integers, Sequences, FiniteSets, TLC

VARIABLES
    pc,              \* position of the main program
    exit_code,       \* process exit code, Running while the process lives
    log,             \* what was printed, in order
    listing,         \* input: what the listing page answers
    upstream,        \* input: per issue, what the quote provider answers
    width,           \* worker pool width (max_workers)
    target_list,     \* result of fetch_target_list
    tpc,             \* per task: position of analyze_stock
    i,               \* per task: iterations of `for i in range(2)` begun
    info,            \* per task: local `info`
    price,           \* per task: local `price`
    eps,             \* per task: local `eps`
    bps,             \* per task: local `bps`
    sqrt_arg,        \* per task: the argument math.sqrt was called with
    result,          \* per task: the value analyze_stock returned
    futures,         \* list(executor.map(...))
    k,               \* position of `for res in futures`
    success_results,
    error_log,
    sorted_data,
    report_html,
    sync_response    \* what the remote node answered

vars == <<pc, exit_code, log, listing, upstream, width, target_list, tpc, i,
          info, price, eps, bps, sqrt_arg, result, futures, k,
          success_results, error_log, sorted_data, report_html, sync_response>>

mainVars == <<pc, exit_code, log, futures, k, success_results, error_log,
              sorted_data, report_html, sync_response>>
taskVars == <<tpc, i, info, price, eps, bps, sqrt_arg, result>>
inputVars == <<listing, upstream, width>>

-----------------------------------------------------------------------------
(* Bounds of the model *)

MaxRows == 3         \* rows of the listing table
MaxRank == 4         \* successes handed to the ranker in SpecRank

(* Program constants *)

MAX_ATTEMPTS == 2    \* for i in range(2)
max_workers == 20    \* ThreadPoolExecutor(max_workers=20)
UPSIDE_LIMIT == 300  \* if upside > 300
TOP_N == 10          \* error_log[:10]
Running == -1        \* exit_code while the process has not exited

-----------------------------------------------------------------------------
(* Python values: a number, None, or a key that is not in the dict *)

Num(n) == [tag |-> "num", v |-> n]
None == [tag |-> "None", v |-> 0]
Absent == [tag |-> "absent", v |-> 0]
IsNone(x) == x.tag # "num"

Keys == {"currentPrice", "forwardEps", "trailingEps", "trailingPE",
         "bookValue", "priceToBook"}

EmptyDict == [key \in Keys |-> Absent]
InfoNone == [kind |-> "None", d |-> EmptyDict]
Dict(d) == [kind |-> "dict", d |-> d]

\* info.get(key): None for a missing key
Get(inf, key) == IF inf.d[key].tag = "absent" THEN None ELSE inf.d[key]

\* key in info
HasKey(inf, key) == inf.d[key].tag # "absent"

\* bool(info): None and {} are falsy
Truthy(inf) == inf.kind = "dict" /\ \E key \in Keys : HasKey(inf, key)

\* `if info and 'currentPrice' in info`
AttemptSucceeded(inf) == Truthy(inf) /\ HasKey(inf, "currentPrice")

\* `pe and pe > 0`
TruthyPositive(x) == x.tag = "num" /\ x.v # 0 /\ x.v > 0

-----------------------------------------------------------------------------
(* Arithmetic *)

\* floor(a / b) for b # 0
FloorDiv(a, b) ==
    IF b > 0 THEN a \div b ELSE (-a) \div (-b)

RECURSIVE ISqrtIter(_, _, _)
ISqrtIter(n, lo, hi) ==
    IF hi - lo <= 1 THEN lo
    ELSE LET mid == (lo + hi) \div 2
         IN  IF mid * mid <= n THEN ISqrtIter(n, mid, hi)
                               ELSE ISqrtIter(n, lo, mid)

\* floor(sqrt(n)) for 0 <= n < 46341^2
ISqrt(n) == ISqrtIter(n, 0, IF n + 1 < 46341 THEN n + 1 ELSE 46341)

\* 22.5 * eps * bps, doubled to stay in the integers
Radicand2(e, b) == 45 * e * b

\* math.sqrt(22.5 * eps * bps): floor of the root; a negative argument
\* raises ValueError
SqrtDomainError(e, b) == Radicand2(e, b) < 0
GrahamNumber(e, b) == ISqrt(Radicand2(e, b) \div 2)

\* ((fair_value - price) / price) * 100, floor
Upside(fair, p) == FloorDiv((fair - p) * 100, p)

\* `upside > 300`, decided on the real numbers.  With R = 22.5 * eps * bps
\* and m = (300 + 100) / 100 = 4:
\* (sqrt(R) - p) / p * 100 > 300  <=>  p > 0 /\ sqrt(R) > m * p
\*                                <=>  p > 0 /\ 2 * R > 2 * m^2 * p^2
\* (for p < 0 the upside of a non-negative fair value is negative)
UpsideAbove300(e, b, p) ==
    LET m == (UPSIDE_LIMIT + 100) \div 100
    IN  p > 0 /\ Radicand2(e, b) > 2 * m * m * p * p

-----------------------------------------------------------------------------
(* analyze_stock: the valuation of a fetched info *)

\* (mutant) a rejection path that falls off the end of the function
ErrorResultDropped(code, reason) == [status |-> "None"]

ErrorResult(code, reason) ==
    [status |-> "error", code |-> code, reason |-> reason]

SuccessResult(code, jp_name, p, fair, upside, e, b) ==
    [status |-> "success", id |-> code, label |-> jp_name, val |-> p,
     target |-> fair, diff |-> upside, eps |-> e, bps |-> b]

\* (mutant) a source that is present but not positive is skipped
ResolveEpsSkipsNonPositive(inf, p) ==
    LET fwd == Get(inf, "forwardEps")
        trl == Get(inf, "trailingEps")
        pe == Get(inf, "trailingPE")
    IN  IF ~IsNone(fwd) /\ fwd.v > 0 THEN fwd
        ELSE IF ~IsNone(trl) /\ trl.v > 0 THEN trl
        ELSE IF TruthyPositive(pe) THEN Num(p.v \div pe.v)
        ELSE IF ~IsNone(fwd) THEN fwd
        ELSE trl

\* forwardEps, else trailingEps, else price / trailingPE
ResolveEps(inf, p) ==
    LET fwd == Get(inf, "forwardEps")
        trl == Get(inf, "trailingEps")
        pe == Get(inf, "trailingPE")
    IN  IF ~IsNone(fwd) THEN fwd
        ELSE IF ~IsNone(trl) THEN trl
        ELSE IF TruthyPositive(pe) THEN Num(p.v \div pe.v)
        ELSE None

\* bookValue, else price / priceToBook
ResolveBps(inf, p) ==
    LET bv == Get(inf, "bookValue")
        pbr == Get(inf, "priceToBook")
    IN  IF ~IsNone(bv) THEN bv
        ELSE IF TruthyPositive(pbr) THEN Num(p.v \div pbr.v)
        ELSE None

Locals(p, e, b, s, r) ==
    [price |-> p, eps |-> e, bps |-> b, sqrt_arg |-> s, result |-> r]

\* lines 111-135: the Graham number, the upside and its ceiling
GrahamStep(code, jp_name, p, e, b) ==
    IF SqrtDomainError(e.v, b.v)
    THEN Locals(p, e, b, Num(Radicand2(e.v, b.v)),
                ErrorResult(code, "Math Domain Error"))
    ELSE LET fair_value == GrahamNumber(e.v, b.v)
         IN  IF p.v = 0
             THEN Locals(p, e, b, Num(Radicand2(e.v, b.v)),
                         ErrorResult(code, "division by zero"))
             ELSE IF UpsideAbove300(e.v, b.v, p.v)
             \* the reason also carries the upside, f"{upside:.0f}%"
             THEN Locals(p, e, b, Num(Radicand2(e.v, b.v)),
                         ErrorResult(code, "Too High (>300%)"))
             ELSE Locals(p, e, b, Num(Radicand2(e.v, b.v)),
                         SuccessResult(code, jp_name, p.v, fair_value,
                                       Upside(fair_value, p.v), e.v, b.v))

\* (mutant) the guard lets a book value of zero through
BpsStepAllowsZero(code, jp_name, inf, p, e) ==
    LET b == ResolveBps(inf, p)
    IN  IF IsNone(b) \/ b.v < 0
        THEN Locals(p, e, b, None, ErrorResult(code, "Deficit (BPS <= 0)"))
        ELSE GrahamStep(code, jp_name, p, e, b)

\* lines 96-106: the book value and its guard
BpsStep(code, jp_name, inf, p, e) ==
    LET b == ResolveBps(inf, p)
    IN  IF IsNone(b) \/ b.v <= 0
        THEN Locals(p, e, b, None, ErrorResult(code, "Deficit (BPS <= 0)"))
        ELSE GrahamStep(code, jp_name, p, e, b)

\* (mutant) missing earnings get a reason of their own
EpsStepSeparatesMissing(code, jp_name, inf, p) ==
    LET e == ResolveEps(inf, p)
    IN  IF IsNone(e)
        THEN Locals(p, e, None, None, ErrorResult(code, "No EPS"))
        ELSE IF e.v <= 0
        THEN Locals(p, e, None, None, ErrorResult(code, "Red Ink (EPS <= 0)"))
        ELSE BpsStep(code, jp_name, inf, p, e)

\* lines 81-93: the earnings and their guard
EpsStep(code, jp_name, inf, p) ==
    LET e == ResolveEps(inf, p)
    IN  IF IsNone(e) \/ e.v <= 0
        THEN Locals(p, e, None, None, ErrorResult(code, "Red Ink (EPS <= 0)"))
        ELSE BpsStep(code, jp_name, inf, p, e)

\* lines 71-138: what analyze_stock does with the info it ended up with
AnalyzeInfo(code, jp_name, inf) ==
    IF inf.kind = "None"
    THEN Locals(None, None, None, None, ErrorResult(code, "Fetch Failed"))
    ELSE LET p == Get(inf, "currentPrice")
         IN  IF IsNone(p)
             THEN Locals(p, None, None, None, ErrorResult(code, "No Price"))
             ELSE EpsStep(code, jp_name, inf, p)

-----------------------------------------------------------------------------
(* fetch_target_list: the cells of the listing table *)

\* a cell of the table as pandas parsed it: a string, or an integer when the
\* whole text of the cell was a number
StrCell(chars) == [tag |-> "str", s |-> chars, n |-> 0]
IntCell(n) == [tag |-> "int", s |-> <<>>, n |-> n]

Digits == <<"0", "1", "2", "3", "4", "5", "6", "7", "8", "9">>
DigitChars == {Digits[d] : d \in 1..10}
Whitespace == {" "}

\* str(n) for n >= 0
RECURSIVE IntToStr(_)
IntToStr(n) ==
    IF n < 10 THEN <<Digits[n + 1]>>
    ELSE IntToStr(n \div 10) \o <<Digits[(n % 10) + 1]>>

\* .astype(str)
AsStr(cell) == IF cell.tag = "int" THEN IntToStr(cell.n) ELSE cell.s

RECURSIVE LStrip(_)
LStrip(s) ==
    IF s # <<>> /\ Head(s) \in Whitespace THEN LStrip(Tail(s)) ELSE s

RECURSIVE RStrip(_)
RStrip(s) ==
    IF s # <<>> /\ s[Len(s)] \in Whitespace
    THEN RStrip(SubSeq(s, 1, Len(s) - 1)) ELSE s

\* .str.strip()
Strip(s) == RStrip(LStrip(s))

\* c.isdigit(): non-empty and every character a digit
IsDigit(c) == c # <<>> /\ \A j \in 1..Len(c) : c[j] \in DigitChars

\* `c.isdigit() and len(c) == 4`
CodeAccepted(c) == IsDigit(c) /\ Len(c) = 4

\* lines 162-170: the rows that survive the code-format filter, in order
RECURSIVE CleanList(_)
CleanList(rows) ==
    IF rows = <<>> THEN <<>>
    ELSE LET c == Strip(AsStr(Head(rows).code))
             n == Strip(AsStr(Head(rows).name))
         IN  (IF CodeAccepted(c) THEN <<[code |-> c, name |-> n]>> ELSE <<>>)
             \o CleanList(Tail(rows))

-----------------------------------------------------------------------------
(* What the program prints *)

Line(msg, n, m) == [msg |-> msg, n |-> n, m |-> m]

Min(a, b) == IF a < b THEN a ELSE b

\* line 295: print(f"[{err['code']}] {err['reason']}")
SkipLine(err) == [msg |-> err.reason, n |-> 0, m |-> 0, code |-> err.code]

\* lines 286-296: the summary and the first skip reasons
SummaryLines(succ, errs) ==
    <<Line("Analysis Finished.", Len(succ), Len(errs))>>
    \o (IF errs # <<>>
        THEN <<Line("--- Skip Reasons (Top 10) ---", 0, 0)>>
             \o [j \in 1..Min(Len(errs), TOP_N) |-> SkipLine(errs[j])]
        ELSE <<>>)

\* what has been printed when the workers start (lines 51, 142, 269, 274)
LogAtProcessing(n) ==
    <<Line("Market Open", 0, 0), Line("Fetching index data from SBI Source...", 0, 0),
      Line("List loaded", n, 0), Line("Processing", n, 0)>>

Exit(code, lines) ==
    /\ pc' = "exited"
    /\ exit_code' = code
    /\ log' = log \o lines

-----------------------------------------------------------------------------
(* Main program, before the workers *)

\* lines 18-32
LoadConfig ==
    /\ pc = "config"
    /\ \E c \in {"ok", "KeyError", "JSONDecodeError"} :
         IF c = "ok"
         THEN pc' = "calendar" /\ UNCHANGED <<exit_code, log>>
         ELSE Exit(1, <<Line(IF c = "KeyError" THEN "Configuration not found."
                                              ELSE "Invalid configuration format.", 0, 0)>>)
    /\ UNCHANGED <<futures, k, success_results, error_log, sorted_data,
                   report_html, sync_response, target_list>>
    /\ UNCHANGED <<taskVars, inputVars>>

\* lines 39-51
check_calendar ==
    /\ pc = "calendar"
    /\ \E day \in {"weekday", "weekend", "holiday"} :
         IF day = "weekday"
         THEN /\ pc' = "fetch_list"
              /\ log' = Append(log, Line("Market Open", 0, 0))
              /\ UNCHANGED exit_code
         ELSE Exit(0, <<Line(IF day = "weekend" THEN "Weekend. Skipping."
                                               ELSE "Holiday. Skipping.", 0, 0)>>)
    /\ UNCHANGED <<futures, k, success_results, error_log, sorted_data,
                   report_html, sync_response, target_list>>
    /\ UNCHANGED <<taskVars, inputVars>>

\* the per-task state when the pool is created
FreshTasks(n) ==
    /\ tpc' = [t \in 1..n |-> "queued"]
    /\ i' = [t \in 1..n |-> 0]
    /\ info' = [t \in 1..n |-> InfoNone]
    /\ price' = [t \in 1..n |-> None]
    /\ eps' = [t \in 1..n |-> None]
    /\ bps' = [t \in 1..n |-> None]
    /\ sqrt_arg' = [t \in 1..n |-> None]
    /\ result' = [t \in 1..n |-> [status |-> "None"]]

\* lines 141-177, then 268-274
fetch_target_list ==
    /\ pc = "fetch_list"
    /\ IF listing.kind = "raise"
       THEN /\ Exit(1, <<Line("Fetching index data from SBI Source...", 0, 0),
                         Line("Error fetching list", 0, 0)>>)
            /\ UNCHANGED <<target_list, taskVars>>
       ELSE IF listing.kind = "no_table"
       THEN /\ Exit(1, <<Line("Fetching index data from SBI Source...", 0, 0),
                         Line("Error: Table not found.", 0, 0)>>)
            /\ UNCHANGED <<target_list, taskVars>>
       ELSE IF listing.kind = "columns_mismatch"
       THEN /\ Exit(1, <<Line("Fetching index data from SBI Source...", 0, 0),
                         Line("Error: Columns mismatch.", 0, 0)>>)
            /\ UNCHANGED <<target_list, taskVars>>
       ELSE LET clean_list == CleanList(listing.rows)
            IN  /\ target_list' = clean_list
                /\ pc' = "processing"
                /\ log' = log \o SubSeq(LogAtProcessing(Len(clean_list)), 2, 4)
                /\ FreshTasks(Len(clean_list))
                /\ UNCHANGED exit_code
    /\ UNCHANGED <<futures, k, success_results, error_log, sorted_data,
                   report_html, sync_response>>
    /\ UNCHANGED inputVars

-----------------------------------------------------------------------------
(* The worker pool: executor.map(analyze_stock, target_list) *)

Tasks == 1..Len(target_list)

InFlight == {t \in Tasks : tpc[t] \in {"fetch", "evaluate"}}

\* a worker takes the next queued task (the work queue is first-in
\* first-out) when fewer than `width` tasks are running; lines 55-60
StartTask(t) ==
    /\ pc = "processing"
    /\ tpc[t] = "queued"
    /\ \A u \in Tasks : u < t => tpc[u] # "queued"
    /\ Cardinality(InFlight) < width
    /\ tpc' = [tpc EXCEPT ![t] = "fetch"]
    /\ UNCHANGED <<i, info, price, eps, bps, sqrt_arg, result>>
    /\ UNCHANGED <<mainVars, inputVars, target_list>>

\* what stock.info answers on the n-th attempt
Response(beh, n) ==
    IF beh.outcomes[n] = "None" THEN InfoNone
    ELSE IF beh.outcomes[n] = "empty" THEN Dict(EmptyDict)
    ELSE Dict(beh.data)

\* (mutant) an exception clears what an earlier attempt had fetched
InfoResetOnException(old, beh, n) ==
    IF beh.outcomes[n] = "raise" THEN InfoNone ELSE Response(beh, n)

\* lines 63-69: `info` after the n-th attempt; an exception leaves it as it was
InfoAfterAttempt(old, beh, n) ==
    IF beh.outcomes[n] = "raise" THEN old ELSE Response(beh, n)

\* line 65-66: the attempt breaks out of the loop
Breaks(beh, n) ==
    beh.outcomes[n] # "raise" /\ AttemptSucceeded(Response(beh, n))

\* (mutant) a failed attempt is not retried
LoopEndsWithoutRetry(beh, n) == TRUE

\* the loop is over after the n-th attempt
LoopEnds(beh, n) == Breaks(beh, n) \/ n >= MAX_ATTEMPTS

\* lines 61-69: one iteration of the retry loop
FetchAttempt(t) ==
    /\ pc = "processing"
    /\ tpc[t] = "fetch"
    /\ LET n == i[t] + 1
       IN  /\ i' = [i EXCEPT ![t] = n]
           /\ info' = [info EXCEPT ![t] = InfoAfterAttempt(info[t], upstream[t], n)]
           /\ tpc' = [tpc EXCEPT ![t] = IF LoopEnds(upstream[t], n)
                                        THEN "evaluate" ELSE "fetch"]
    /\ UNCHANGED <<price, eps, bps, sqrt_arg, result>>
    /\ UNCHANGED <<mainVars, inputVars, target_list>>

\* lines 71-138: the rest of analyze_stock, to its return
Evaluate(t) ==
    /\ pc = "processing"
    /\ tpc[t] = "evaluate"
    /\ LET out == AnalyzeInfo(target_list[t].code, target_list[t].name, info[t])
       IN  /\ price' = [price EXCEPT ![t] = out.price]
           /\ eps' = [eps EXCEPT ![t] = out.eps]
           /\ bps' = [bps EXCEPT ![t] = out.bps]
           /\ sqrt_arg' = [sqrt_arg EXCEPT ![t] = out.sqrt_arg]
           /\ result' = [result EXCEPT ![t] = out.result]
    /\ tpc' = [tpc EXCEPT ![t] = "done"]
    /\ UNCHANGED <<i, info>>
    /\ UNCHANGED <<mainVars, inputVars, target_list>>

\* the retry loop as a whole, from the n-th attempt on
RECURSIVE InfoAfterLoop(_, _, _)
InfoAfterLoop(old, beh, n) ==
    IF n > MAX_ATTEMPTS THEN old
    ELSE IF LoopEnds(beh, n) THEN InfoAfterAttempt(old, beh, n)
    ELSE InfoAfterLoop(InfoAfterAttempt(old, beh, n), beh, n + 1)

\* lines 54-138: what analyze_stock returns for an issue, run on its own
analyze_stock(issue, beh) ==
    AnalyzeInfo(issue.code, issue.name, InfoAfterLoop(InfoNone, beh, 1)).result

\* (mutant) the results are read without waiting for the workers
AwaitedNone == {}

\* the tasks whose results list(executor.map(...)) waits for
Awaited == Tasks

\* lines 276-277: list() returns once every result is there, in input order
Gather ==
    /\ pc = "processing"
    /\ \A t \in Awaited : tpc[t] = "done"
    /\ futures' = [t \in Tasks |-> result[t]]
    /\ k' = 1
    /\ pc' = "collect"
    /\ UNCHANGED <<exit_code, log, success_results, error_log, sorted_data,
                   report_html, sync_response>>
    /\ UNCHANGED <<taskVars, inputVars, target_list>>

-----------------------------------------------------------------------------
(* Main program, after the workers *)

\* lines 279-284: one iteration of `for res in futures`
CollectResult ==
    /\ pc = "collect"
    /\ k <= Len(futures)
    /\ LET res == futures[k]
       IN  IF res.status = "None"
           THEN UNCHANGED <<success_results, error_log>>
           ELSE IF res.status = "success"
           THEN /\ success_results' = Append(success_results, res)
                /\ UNCHANGED error_log
           ELSE /\ error_log' = Append(error_log, res)
                /\ UNCHANGED success_results
    /\ k' = k + 1
    /\ UNCHANGED <<pc, exit_code, log, futures, sorted_data, report_html,
                   sync_response>>
    /\ UNCHANGED <<taskVars, inputVars, target_list>>

\* lines 286-300: the summary, then the exit of a run without successes
PrintSummary ==
    /\ pc = "collect"
    /\ k > Len(futures)
    /\ IF success_results = <<>>
       THEN Exit(0, SummaryLines(success_results, error_log)
                    \o <<Line("No valid data found.", 0, 0)>>)
       ELSE /\ pc' = "sort"
            /\ log' = log \o SummaryLines(success_results, error_log)
            /\ UNCHANGED exit_code
    /\ UNCHANGED <<futures, k, success_results, error_log, sorted_data,
                   report_html, sync_response>>
    /\ UNCHANGED <<taskVars, inputVars, target_list>>

Reverse(s) == [j \in 1..Len(s) |-> s[Len(s) + 1 - j]]

\* x goes after every element whose key is not greater
RECURSIVE InsertStable(_, _)
InsertStable(s, x) ==
    IF s = <<>> THEN <<x>>
    ELSE IF Head(s).diff <= x.diff THEN <<Head(s)>> \o InsertStable(Tail(s), x)
    ELSE <<x>> \o s

\* a stable ascending sort by x['diff']
RECURSIVE SortAscStable(_)
SortAscStable(s) ==
    IF s = <<>> THEN <<>>
    ELSE InsertStable(SortAscStable(SubSeq(s, 1, Len(s) - 1)), s[Len(s)])

\* (mutant) sorted ascending and then reversed
SortedUnstable(s) == Reverse(SortAscStable(s))

\* sorted(data, key=lambda x: x['diff'], reverse=True): the list is reversed,
\* sorted ascending by a stable sort, and reversed again
Sorted(s) == Reverse(SortAscStable(Reverse(s)))

\* line 303
SortResults ==
    /\ pc = "sort"
    /\ sorted_data' = Sorted(success_results)
    /\ pc' = "build"
    /\ UNCHANGED <<exit_code, log, futures, k, success_results, error_log,
                   report_html, sync_response>>
    /\ UNCHANGED <<taskVars, inputVars, target_list>>

\* lines 206-216: the colour of a row
Color(diff_val) ==
    IF -10 < diff_val /\ diff_val < 10 THEN "#333"
    ELSE IF diff_val > 0 THEN "#d32f2f" ELSE "#1976d2"

\* line 208: f"{diff_val:+.0f}%"
DiffStr(diff_val) ==
    <<IF diff_val < 0 THEN "-" ELSE "+">>
    \o IntToStr(IF diff_val < 0 THEN -diff_val ELSE diff_val) \o <<"%">>

\* lines 180-232: the rows of the table and the count in the footer
build_payload(data) ==
    [rows |-> [j \in 1..Len(data) |->
                 [id |-> data[j].id, label |-> data[j].label, val |-> data[j].val,
                  target |-> data[j].target, diff |-> DiffStr(data[j].diff),
                  color |-> Color(data[j].diff)]],
     count |-> Len(data)]

\* line 305
BuildPayload ==
    /\ pc = "build"
    /\ report_html' = build_payload(sorted_data)
    /\ pc' = "sync"
    /\ UNCHANGED <<exit_code, log, futures, k, success_results, error_log,
                   sorted_data, sync_response>>
    /\ UNCHANGED <<taskVars, inputVars, target_list>>

HttpResponse(code) == [kind |-> "response", status_code |-> code]
ConnectionError == [kind |-> "exception", status_code |-> 0]
NoResponse == [kind |-> "none", status_code |-> 0]
SyncResponses == {HttpResponse(200), HttpResponse(201), HttpResponse(500),
                  ConnectionError}

\* (mutant) every answer of the remote node counts as a success
SyncOkAnyResponse(res) == res.kind = "response"

\* line 255: the response that counts as a success
SyncOk(res) == res.kind = "response" /\ res.status_code = 200

\* lines 235-262 and the end of the script (line 306)
sync_remote_node ==
    /\ pc = "sync"
    /\ \E res \in SyncResponses :
         /\ sync_response' = res
         /\ IF SyncOk(res)
            THEN Exit(0, <<Line("Syncing with remote node...", 0, 0),
                           Line("Sync complete.", 0, 0)>>)
            ELSE IF res.kind = "response"
            THEN Exit(1, <<Line("Syncing with remote node...", 0, 0),
                           Line("Sync failed", res.status_code, 0)>>)
            ELSE Exit(1, <<Line("Syncing with remote node...", 0, 0),
                           Line("Connection error", 0, 0)>>)
    /\ UNCHANGED <<futures, k, success_results, error_log, sorted_data,
                   report_html>>
    /\ UNCHANGED <<taskVars, inputVars, target_list>>

-----------------------------------------------------------------------------
(* Inputs *)

Chars(a, b, c, d) == <<a, b, c, d>>

NameCell == StrCell(<<" ", "T">>)

\* code cells: one that survives the filter once stripped, and two that do
\* not (a letter; a number of three digits, as "0123" is parsed)
RawCodes == {StrCell(<<" ", "7", "2", "0", "3">>),
             StrCell(Chars("1", "3", "0", "A")), IntCell(123)}

RawRows == {[code |-> c, name |-> NameCell] : c \in RawCodes}

SeqsUpTo(S, n) == UNION {[1..m -> S] : m \in 0..n}

Listings ==
    {[kind |-> kd, rows |-> <<>>] : kd \in {"raise", "no_table", "columns_mismatch"}}
    \cup {[kind |-> "table", rows |-> r] : r \in SeqsUpTo(RawRows, MaxRows)}

Fundamentals(p, fwd, trl, pe, bv, pbr) ==
    [currentPrice |-> p, forwardEps |-> fwd, trailingEps |-> trl,
     trailingPE |-> pe, bookValue |-> bv, priceToBook |-> pbr]

Behaviour(o1, o2, d) == [outcomes |-> <<o1, o2>>, data |-> d]

Outcomes == {"raise", "None", "empty", "data"}

\* fair value 30 against a price of 120: upside -75
Overvalued == Fundamentals(Num(120), Num(8), Absent, Absent, Num(5), Absent)
\* fair value 30 against a price of 15: upside 100
Undervalued == Fundamentals(Num(15), Num(8), Absent, Absent, Num(5), Absent)
RedInk == Fundamentals(Num(120), Num(-2), Num(8), Absent, Num(5), Absent)
Priceless == Fundamentals(Absent, Num(8), Absent, Absent, Num(5), Absent)

\* the provider's behaviours in a whole run
Profiles ==
    {Behaviour("raise", "raise", EmptyDict),
     Behaviour("raise", "data", Overvalued),
     Behaviour("data", "data", Undervalued),
     Behaviour("data", "data", RedInk),
     Behaviour("empty", "data", Priceless)}

\* the provider's behaviours for one issue
PriceValues == {Absent, None, Num(-120), Num(0), Num(5), Num(120)}
ForwardEpsValues == {Absent, Num(-2), Num(0), Num(8)}
TrailingEpsValues == {Absent, Num(-2), Num(8)}
TrailingPEValues == {Absent, Num(0), Num(5)}
BookValueValues == {Absent, Num(-5), Num(0), Num(5)}
PriceToBookValues == {Absent, Num(-5), Num(5)}

RichInfos ==
    {Fundamentals(p, fwd, trl, pe, bv, pbr) :
        p \in PriceValues, fwd \in ForwardEpsValues, trl \in TrailingEpsValues,
        pe \in TrailingPEValues, bv \in BookValueValues, pbr \in PriceToBookValues}

RichBehaviours ==
    {Behaviour(o1, o2, d) : o1 \in Outcomes, o2 \in Outcomes, d \in RichInfos}

PoolWidths == {1, max_workers}

-----------------------------------------------------------------------------
(* The whole run *)

MainAtStart ==
    /\ exit_code = Running
    /\ futures = <<>>
    /\ k = 1
    /\ success_results = <<>>
    /\ error_log = <<>>
    /\ sorted_data = <<>>
    /\ report_html = build_payload(<<>>)
    /\ sync_response = NoResponse

NoTasks ==
    /\ tpc = <<>>
    /\ i = <<>>
    /\ info = <<>>
    /\ price = <<>>
    /\ eps = <<>>
    /\ bps = <<>>
    /\ sqrt_arg = <<>>
    /\ result = <<>>

Init ==
    /\ pc = "config"
    /\ log = <<>>
    /\ MainAtStart
    /\ listing \in Listings
    /\ upstream \in [1..Len(CleanList(listing.rows)) -> Profiles]
    /\ width \in PoolWidths
    /\ target_list = <<>>
    /\ NoTasks

Next ==
    \/ LoadConfig
    \/ check_calendar
    \/ fetch_target_list
    \/ \E t \in Tasks : StartTask(t)
    \/ \E t \in Tasks : FetchAttempt(t)
    \/ \E t \in Tasks : Evaluate(t)
    \/ Gather
    \/ CollectResult
    \/ PrintSummary
    \/ SortResults
    \/ BuildPayload
    \/ sync_remote_node

Spec == Init /\ [][Next]_vars

-----------------------------------------------------------------------------
(* analyze_stock on one issue, over every answer of the provider *)

OneIssue == <<[code |-> Chars("7", "2", "0", "3"), name |-> <<"T">>]>>

InitEval ==
    /\ pc = "processing"
    /\ log = LogAtProcessing(1)
    /\ MainAtStart
    /\ listing = [kind |-> "table",
                  rows |-> <<[code |-> IntCell(7203), name |-> NameCell]>>]
    /\ upstream \in [1..1 -> RichBehaviours]
    /\ width = max_workers
    /\ target_list = OneIssue
    /\ tpc = [t \in 1..1 |-> "queued"]
    /\ i = [t \in 1..1 |-> 0]
    /\ info = [t \in 1..1 |-> InfoNone]
    /\ price = [t \in 1..1 |-> None]
    /\ eps = [t \in 1..1 |-> None]
    /\ bps = [t \in 1..1 |-> None]
    /\ sqrt_arg = [t \in 1..1 |-> None]
    /\ result = [t \in 1..1 |-> [status |-> "None"]]

NextEval ==
    \/ \E t \in Tasks : StartTask(t)
    \/ \E t \in Tasks : FetchAttempt(t)
    \/ \E t \in Tasks : Evaluate(t)

SpecEval == InitEval /\ [][NextEval]_vars

-----------------------------------------------------------------------------
(* The ranker on its own, over every order of three upside values *)

\* upsides of exactly 100, 5 and -3 per cent
Upside100 == Fundamentals(Num(15), Num(8), Absent, Absent, Num(5), Absent)
Upside5 == Fundamentals(Num(100), Num(10), Absent, Absent, Num(49), Absent)
UpsideMinus3 == Fundamentals(Num(1500), Num(97), Absent, Absent, Num(970), Absent)

RankBehaviours ==
    {Behaviour("data", "data", d) : d \in {Upside100, Upside5, UpsideMinus3}}

RankIssue(j) == [code |-> IntToStr(7200 + j), name |-> <<"T">>]

RankOutcome(j, beh) == AnalyzeInfo(RankIssue(j).code, RankIssue(j).name, Dict(beh.data))

\* the state at line 302 of a run in which every issue was valued
InitRank ==
    /\ pc = "sort"
    /\ exit_code = Running
    /\ sorted_data = <<>>
    /\ report_html = build_payload(<<>>)
    /\ sync_response = NoResponse
    /\ width = max_workers
    /\ error_log = <<>>
    /\ \E m \in 1..MaxRank :
         /\ upstream \in [1..m -> RankBehaviours]
         /\ listing = [kind |-> "table",
                       rows |-> [j \in 1..m |-> [code |-> IntCell(7200 + j),
                                                 name |-> NameCell]]]
         /\ target_list = [j \in 1..m |-> RankIssue(j)]
         /\ tpc = [j \in 1..m |-> "done"]
         /\ i = [j \in 1..m |-> 1]
         /\ info = [j \in 1..m |-> Dict(upstream[j].data)]
         /\ price = [j \in 1..m |-> RankOutcome(j, upstream[j]).price]
         /\ eps = [j \in 1..m |-> RankOutcome(j, upstream[j]).eps]
         /\ bps = [j \in 1..m |-> RankOutcome(j, upstream[j]).bps]
         /\ sqrt_arg = [j \in 1..m |-> RankOutcome(j, upstream[j]).sqrt_arg]
         /\ result = [j \in 1..m |-> RankOutcome(j, upstream[j]).result]
         /\ futures = result
         /\ success_results = result
         /\ k = m + 1
         /\ log = LogAtProcessing(m) \o SummaryLines(result, <<>>)

NextRank ==
    \/ SortResults
    \/ BuildPayload
    \/ sync_remote_node

SpecRank == InitRank /\ [][NextRank]_vars

-----------------------------------------------------------------------------
(* Helpers of the properties *)

HasLine(msg) == \E j \in 1..Len(log) : log[j].msg = msg

\* the first position of a line, 0 when it was never printed
LinePos(msg) ==
    IF HasLine(msg)
    THEN CHOOSE j \in 1..Len(log) :
            log[j].msg = msg /\ \A h \in 1..(j - 1) : log[h].msg # msg
    ELSE 0

\* the loop over futures is over
AfterCollection == HasLine("Analysis Finished.")

Done(t) == tpc[t] = "done"

Fwd(t) == Get(info[t], "forwardEps")
Trl(t) == Get(info[t], "trailingEps")
Pe(t) == Get(info[t], "trailingPE")
Bv(t) == Get(info[t], "bookValue")
Pbr(t) == Get(info[t], "priceToBook")

\* the valuation was entered: a response with a price
Valued(t) == Done(t) /\ info[t].kind = "dict" /\ ~IsNone(Get(info[t], "currentPrice"))

-----------------------------------------------------------------------------
(* Properties *)

Successes == {t \in Tasks : analyze_stock(target_list[t], upstream[t]).status = "success"}
Rejections == {t \in Tasks : analyze_stock(target_list[t], upstream[t]).status = "error"}

\* C1: every issue handed to the pool yields exactly one result, a success
\* or a rejection, whatever the interleaving of the workers; list() hands
\* back one result per issue, the loop files each in exactly one of the two
\* lists, and after collection
\* len(success_results) + len(error_log) = len(target_list).
C1_OneResultPerIssue ==
    /\ \A t \in Tasks : Done(t) <=> result[t].status \in {"success", "error"}
    /\ pc = "collect" =>
         /\ Len(futures) = Len(target_list)
         /\ Len(success_results) + Len(error_log) = k - 1
    /\ AfterCollection =>
         /\ Len(futures) = Len(target_list)
         /\ Len(success_results) + Len(error_log) = Len(target_list)

C1_Witness ==
    /\ pc = "sort"
    /\ Len(target_list) = 3
    /\ success_results # <<>>
    /\ error_log # <<>>

AlwaysRaises(t) == \A n \in 1..MAX_ATTEMPTS : upstream[t].outcomes[n] = "raise"

\* C2: when the provider raises on every attempt, analyze_stock makes exactly
\* MAX_ATTEMPTS (2) attempts, one after the other, and returns the rejection
\* 'Fetch Failed'; no attempt follows and nothing but that rejection leaves
\* the function.
C2_AlwaysRaisingExhaustsAttempts ==
    \A t \in Tasks : AlwaysRaises(t) =>
        /\ i[t] <= MAX_ATTEMPTS
        /\ tpc[t] = "fetch" => i[t] < MAX_ATTEMPTS
        /\ tpc[t] \in {"evaluate", "done"} => i[t] = MAX_ATTEMPTS /\ info[t] = InfoNone
        /\ Done(t) => result[t] = ErrorResult(target_list[t].code, "Fetch Failed")

C2_Witness ==
    \E t \in Tasks :
        /\ AlwaysRaises(t)
        /\ Done(t)
        /\ i[t] = 2
        /\ result[t].reason = "Fetch Failed"

\* the n-th attempt answers with a response that holds a price
UsablePrice(t, n) ==
    /\ upstream[t].outcomes[n] = "data"
    /\ upstream[t].data.currentPrice.tag = "num"

\* the n-th attempt answers with a non-empty response that has the key
HasPriceKey(t, n) ==
    /\ upstream[t].outcomes[n] = "data"
    /\ upstream[t].data.currentPrice.tag # "absent"

\* the kind of the last answer among the first n attempts that did not raise
RECURSIVE LastAnswer(_, _)
LastAnswer(t, n) ==
    IF n = 0 THEN "None"
    ELSE IF upstream[t].outcomes[n] # "raise" THEN upstream[t].outcomes[n]
    ELSE LastAnswer(t, n - 1)

\* C3 as stated: an attempt succeeds only with a usable price, every other
\* attempt is retried, and when all attempts fail the issue is rejected as
\* 'Fetch Failed' and as nothing else.
C3_Original ==
    \A t \in Tasks : Done(t) =>
        /\ \A n \in 1..(i[t] - 1) : ~UsablePrice(t, n)
        /\ i[t] < MAX_ATTEMPTS => UsablePrice(t, i[t])
        /\ (\A n \in 1..MAX_ATTEMPTS : ~UsablePrice(t, n)) =>
             /\ i[t] = MAX_ATTEMPTS
             /\ result[t] = ErrorResult(target_list[t].code, "Fetch Failed")

\* C3 (amended): the retry loop stops early only at a response that is
\* non-empty and has the currentPrice key; every other attempt (exception,
\* None, empty response, response without the key) is followed by the next
\* one, up to 2 attempts.  When every attempt fails, the issue is rejected
\* as 'Fetch Failed' if the last attempt that answered at all answered None
\* (or none answered), and as 'No Price' if it answered with a response.
C3_RetryAndRejection ==
    \A t \in Tasks : Done(t) =>
        /\ \A n \in 1..(i[t] - 1) : ~HasPriceKey(t, n)
        /\ i[t] < MAX_ATTEMPTS => HasPriceKey(t, i[t])
        /\ (\A n \in 1..MAX_ATTEMPTS : ~HasPriceKey(t, n)) =>
             /\ i[t] = MAX_ATTEMPTS
             /\ result[t] = ErrorResult(target_list[t].code,
                                IF LastAnswer(t, MAX_ATTEMPTS) = "None"
                                THEN "Fetch Failed" ELSE "No Price")

C3_Witness ==
    \E t \in Tasks :
        /\ Done(t)
        /\ upstream[t].outcomes = <<"data", "raise">>
        /\ upstream[t].data.currentPrice = Absent
        /\ i[t] = 2
        /\ result[t].reason = "No Price"

EpsAbsent(t) == IsNone(Fwd(t)) /\ IsNone(Trl(t)) /\ ~(Pe(t).tag = "num" /\ Pe(t).v > 0)
BpsAbsent(t) == IsNone(Bv(t)) /\ ~(Pbr(t).tag = "num" /\ Pbr(t).v > 0)

\* the reasons the program gives an issue whose EPS, or BPS, is resolved and
\* not positive
NonPositiveEpsReason ==
    analyze_stock(OneIssue[1], Behaviour("data", "data", RedInk)).reason
NonPositiveBpsReason ==
    analyze_stock(OneIssue[1], Behaviour("data", "data",
        Fundamentals(Num(120), Num(8), Absent, Absent, Num(-5), Absent))).reason

\* C4 as stated: an issue whose EPS cannot be resolved is rejected with
\* another reason than one whose resolved EPS is <= 0, and likewise for the
\* book value.
C4_Original ==
    \A t \in Tasks : Valued(t) =>
        /\ EpsAbsent(t) =>
             result[t].status = "error" /\ result[t].reason # NonPositiveEpsReason
        /\ (~IsNone(eps[t]) /\ eps[t].v > 0 /\ BpsAbsent(t)) =>
             result[t].status = "error" /\ result[t].reason # NonPositiveBpsReason

\* C4 (amended): an issue whose EPS cannot be resolved and one whose
\* resolved EPS is <= 0 are both rejected with the one reason
\* 'Red Ink (EPS <= 0)'; with positive earnings, an unresolvable book value
\* and a resolved BPS <= 0 are both rejected with the one reason
\* 'Deficit (BPS <= 0)'.  The earnings reason and the book-value reason differ.
C4_RejectionReasons ==
    \A t \in Tasks : Valued(t) =>
        /\ (EpsAbsent(t) \/ (~IsNone(eps[t]) /\ eps[t].v <= 0)) =>
             result[t] = ErrorResult(target_list[t].code, "Red Ink (EPS <= 0)")
        /\ (~IsNone(eps[t]) /\ eps[t].v > 0
                /\ (BpsAbsent(t) \/ (~IsNone(bps[t]) /\ bps[t].v <= 0))) =>
             result[t] = ErrorResult(target_list[t].code, "Deficit (BPS <= 0)")
        /\ NonPositiveEpsReason # NonPositiveBpsReason

C4_Witness ==
    \E t \in Tasks :
        /\ Valued(t)
        /\ EpsAbsent(t)
        /\ Bv(t) = Num(5)
        /\ result[t].reason = "Red Ink (EPS <= 0)"

\* C5: with a price present, the EPS used is the first present value of
\* forwardEps, trailingEps, price / trailingPE (the last only for a
\* trailingPE > 0): a later source is used only when every earlier one is
\* absent, and an earlier source that is present and <= 0 is used, and the
\* issue rejected, whatever the later sources hold.
C5_EpsChain ==
    \A t \in Tasks : Valued(t) =>
        /\ ~IsNone(Fwd(t)) => eps[t] = Fwd(t)
        /\ (IsNone(Fwd(t)) /\ ~IsNone(Trl(t))) => eps[t] = Trl(t)
        /\ (IsNone(Fwd(t)) /\ IsNone(Trl(t)) /\ ~EpsAbsent(t)) =>
             /\ ~IsNone(eps[t])
             /\ eps[t].v * Pe(t).v = price[t].v
        /\ EpsAbsent(t) => IsNone(eps[t])
        /\ (~IsNone(eps[t]) /\ eps[t].v <= 0) => result[t].status = "error"
        /\ result[t].status = "success" => result[t].eps = eps[t].v

C5_Witness ==
    \E t \in Tasks :
        /\ Valued(t)
        /\ Fwd(t) = Num(0)
        /\ Trl(t) = Num(8)
        /\ Pe(t) = Num(5)
        /\ eps[t] = Num(0)
        /\ result[t].status = "error"

\* C6: the square root is taken only of a positive radicand, from eps > 0
\* and bps > 0; an issue with resolved eps <= 0 or bps <= 0 is rejected
\* before it; 'Math Domain Error' is never returned; every success carries
\* a strictly positive fair value.
C6_SqrtGuarded ==
    \A t \in Tasks :
        /\ ~IsNone(sqrt_arg[t]) =>
             /\ ~IsNone(eps[t]) /\ eps[t].v > 0
             /\ ~IsNone(bps[t]) /\ bps[t].v > 0
             /\ sqrt_arg[t].v > 0
        /\ Done(t) =>
             /\ result[t].status = "error" => result[t].reason # "Math Domain Error"
             /\ result[t].status = "success" =>
                  result[t].target > 0 /\ ~IsNone(sqrt_arg[t])
             /\ ((~IsNone(eps[t]) /\ eps[t].v <= 0) \/ (~IsNone(bps[t]) /\ bps[t].v <= 0)) =>
                  result[t].status = "error" /\ IsNone(sqrt_arg[t])

C6_Witness ==
    \E t \in Tasks :
        /\ Done(t)
        /\ result[t].status = "success"
        /\ result[t].target > 0
        /\ IsNone(Fwd(t)) /\ IsNone(Trl(t)) /\ IsNone(Bv(t))
        /\ price[t] = Num(120)

DiffsOf(s) == [j \in 1..Len(s) |-> s[j].diff]
TiesOf(s, d) == SelectSeq(s, LAMBDA r : r.diff = d)

\* C7: the ranked report is the success list reordered, in descending order
\* of upside, and the successes of equal upside keep the order they had in
\* the success list.
C7_StableDescending ==
    pc \in {"build", "sync", "exited"} =>
        /\ Len(sorted_data) = Len(success_results)
        /\ \A a, b \in 1..Len(sorted_data) :
             a < b => sorted_data[a].diff >= sorted_data[b].diff
        /\ \A j \in 1..Len(success_results) :
             TiesOf(sorted_data, success_results[j].diff)
                = TiesOf(success_results, success_results[j].diff)

C7_Witness ==
    /\ pc = "build"
    /\ DiffsOf(success_results) = <<5, -3, 5, 100>>
    /\ DiffsOf(sorted_data) = <<100, 5, 5, -3>>
    /\ sorted_data[2] = success_results[1]
    /\ sorted_data[3] = success_results[3]
    /\ sorted_data[2] # sorted_data[3]

\* C8: the totals of a run are those of its issues analysed one by one: for
\* a pool of width 1 and of width 20, under every interleaving of the
\* workers, the number of successes and of rejections collected depend on
\* the universe and the provider's answers alone.  The pool never runs more
\* tasks than its width and nothing is collected while a worker runs.
C8_TotalsIndependentOfPool ==
    /\ Cardinality(InFlight) <= width
    /\ pc \in {"collect", "sort", "build", "sync"} => \A t \in Tasks : Done(t)
    /\ (\E t \in Tasks : ~Done(t)) => success_results = <<>> /\ error_log = <<>>
    /\ AfterCollection =>
         /\ Len(success_results) = Cardinality(Successes)
         /\ Len(error_log) = Cardinality(Rejections)

C8_Witness ==
    /\ AfterCollection
    /\ width = max_workers
    /\ Len(target_list) = 3
    /\ Len(success_results) = 2
    /\ Len(error_log) = 1

\* C9 as stated: fetch_target_list ends the process with a non-zero code
\* when the table or its columns cannot be found and when no row survives
\* the code filter; it never returns an empty universe.
C9_NeverEmptyUniverse ==
    /\ (HasLine("Fetching index data from SBI Source...") /\ listing.kind # "table") =>
         pc = "exited" /\ exit_code = 1
    /\ (HasLine("Fetching index data from SBI Source...") /\ listing.kind = "table"
            /\ CleanList(listing.rows) = <<>>) =>
         pc = "exited" /\ exit_code # 0 /\ exit_code # Running
    /\ HasLine("List loaded") => target_list # <<>>

PublishAttempted == HasLine("Syncing with remote node...")

\* a response outside 2xx, or a transport exception
PublishFailed ==
    \/ sync_response.kind = "exception"
    \/ /\ sync_response.kind = "response"
       /\ ~(200 <= sync_response.status_code /\ sync_response.status_code <= 299)

====
